---- MODULE Spec2Model ----
(***************************************************************************)
(* A model of the VRChat group scheduler: the job scheduler of             *)
(* src/main/scheduler.js, the rate-limited API client and the group        *)
(* permission cache of the main-process vrchat.js.                         *)
(*                                                                         *)
(* Every async function is a task that moves from one await to the next;   *)
(* between two awaits of one task any other task may run, as on the        *)
(* Node.js event loop.  A read or a write of a JSON document is one step.  *)
(***************************************************************************)
EXTENDS Integers, Sequences, FiniteSets, TLC

\* ------------------------------------------------------------- bounds
MaxPosts == 2       \* ids handed out by crypto.randomUUID(), as 1..MaxPosts
MaxTime == 3        \* instants of the scheduler's clock, 0..MaxTime
MaxTasks == 2       \* async scheduler functions in flight together
MaxRestarts == 1    \* times the process is closed and started again
SlotsPerDay == 2    \* instants (hour:minute values) per calendar day
MaxDeletes == 1     \* posts:delete requests of the renderer

\* ---------------------------------------------------------- scheduler
VARIABLES
    posts,      \* posts.json: the persisted list of Post records
    jobs,       \* the Map `jobs`: post id -> job handle (0: no entry)
    timers,     \* the jobs node-schedule holds armed
    tasks,      \* async functions in flight, one per slot
    now,        \* the wall clock
    running,    \* whether the process is alive
    nextId,     \* the next id crypto.randomUUID() hands out
    restarts,   \* how often the process was started again
    deletes,    \* how many posts:delete requests were made
    calls,      \* per post id, the createGroupPost calls made for it
    marks,      \* what has been observed of each post id (history of the run)
    quiet       \* no request and no firing since the process started

schedVars == <<posts, jobs, timers, tasks, now, running, nextId, restarts, deletes, calls, marks, quiet>>

Ids == 1..MaxPosts
Times == 0..MaxTime
Slots == 1..MaxTasks
Never == MaxTime + 1
WeekLen == 7

NoRec == [type |-> "none", days |-> {}]
Daily == [type |-> "daily", days |-> {}]
Weekly(d) == [type |-> "weekly", days |-> d]
\* The recurrences and times the renderer's form sends with posts:create.
RecInputs == {NoRec, Daily}
\* The same form with the weekly recurrence chosen, for the second weekday
\* of the model's calendar.
WeeklyInputs == {NoRec, Weekly({1})}
AtInputs == {1}

ErrMissed == "Scheduled time passed while app was closed"
ErrApi == "create-post failed"

IsRec(post) == post.rec.type # "none"

\* The RecurrenceRule of a template: hour and minute of scheduledAt, second 0,
\* and the weekdays of a weekly recurrence.
Matches(rec, at, t) ==
    /\ t % SlotsPerDay = at % SlotsPerDay
    /\ rec.type = "weekly" => ((t \div SlotsPerDay) % WeekLen) \in rec.days

\* The next invocation node-schedule computes: the first matching instant
\* after `t`.
NextMatch(rec, at, t) ==
    LET later == {u \in Times : u > t /\ Matches(rec, at, u)}
    IN  IF later = {} THEN Never
        ELSE CHOOSE u \in later : \A v \in later : u <= v

IdleTask ==
    [op |-> "idle", pc |-> "idle", id |-> 0, status |-> "", error |-> "",
     snap |-> <<>>, at |-> 0, rec |-> NoRec, parentId |-> 0, skip |-> FALSE,
     force |-> FALSE, armed |-> FALSE, origin |-> ""]

FreeSlots(ts) == {s \in Slots : ts[s].op = "idle"}
MinOf(S) == CHOOSE x \in S : \A y \in S : x <= y

\* Start an async function: it takes the lowest free slot.
Spawn(ts, task) == [ts EXCEPT ![MinOf(FreeSlots(ts))] = task]

IndexOf(list, id) ==
    LET hits == {i \in 1..Len(list) : list[i].id = id}
    IN  IF hits = {} THEN 0 ELSE MinOf(hits)

HasId(list, id) == IndexOf(list, id) # 0
PostOf(list, id) == list[IndexOf(list, id)]

FilterSeq(list, Keep(_)) ==
    LET F[i \in 0..Len(list)] ==
            IF i = 0 THEN <<>>
            ELSE IF Keep(list[i]) THEN Append(F[i - 1], list[i]) ELSE F[i - 1]
    IN  F[Len(list)]

\* getPosts(includeDeleted, statusFilter); statusFilter "" is null.
GetPosts(list, includeDeleted, statusFilter) ==
    IF statusFilter # ""
    THEN FilterSeq(list, LAMBDA p : p.status = statusFilter)
    ELSE IF ~includeDeleted
         THEN FilterSeq(list, LAMBDA p : p.status # "deleted")
         ELSE list

\* ---------------------------------------------------------- job handles
Handles == 1..(2 * MaxPosts)

UsedHandles(S) == {S.jobs[i] : i \in Ids} \cup {j.h : j \in S.timers}

NoMark ==
    [recon |-> FALSE, delReq |-> FALSE, forceReq |-> FALSE, soft |-> FALSE,
     force |-> FALSE, firedAfter |-> FALSE, fireAt |-> 0, due |-> 0,
     outcome |-> ""]

\* schedule.scheduleJob(rule, callback) and jobs.set(post.id, job)
\* (scheduler.js 34-53 and 101): a new job is armed and the map entry of the id
\* is overwritten; a job the entry pointed to before stays armed.
Arm(S, post, t) ==
    LET h == MinOf(Handles \ UsedHandles(S))
        job == [h |-> h, id |-> post.id, rec |-> post.rec, at |-> post.at,
                next |-> IF IsRec(post) THEN NextMatch(post.rec, post.at, t)
                         ELSE post.at]
    IN  [S EXCEPT !.timers = @ \cup {job}, !.jobs[post.id] = h]

\* The call updatePostStatus(id, status, extra) up to its first await.
UpdTask(id, status, error, origin) ==
    [IdleTask EXCEPT !.op = "upd", !.pc = "read", !.id = id, !.status = status,
                     !.error = error, !.origin = origin]

\* A schedulePostJob without the check for a time that has passed.
SchedulePostJobAlways(S, post, t, origin) == Arm(S, post, t)

\* schedulePostJob(post): a one-shot post whose time has passed is marked
\* missed by an updatePostStatus call that is not awaited; any other post is
\* armed.
SchedulePostJob(S, post, t, origin) ==
    IF ~IsRec(post) /\ post.at < t
    THEN [S EXCEPT !.tasks = Spawn(@, UpdTask(post.id, "missed", ErrMissed, origin)),
                   !.marks[post.id].recon = (origin = "init")]
    ELSE Arm(S, post, t)

\* activePosts.forEach(post => schedulePostJob(post))
RECURSIVE ScheduleAll(_, _, _, _)
ScheduleAll(S, list, t, origin) ==
    IF list = <<>> THEN S
    ELSE ScheduleAll(SchedulePostJob(S, Head(list), t, origin), Tail(list), t, origin)

\* A startup filter that takes every record that is not in the trash.
IsActiveAny(p) == p.status # "deleted"

\* p.status === 'pending' || p.status === 'recurring'
IsActive(p) == p.status = "pending" \/ p.status = "recurring"
IsPastOneShot(p, t) == ~IsRec(p) /\ p.at < t

CountPast(list, t) == Cardinality({i \in 1..Len(list) : IsPastOneShot(list[i], t)})

SchedState == [jobs |-> jobs, timers |-> timers, tasks |-> tasks, marks |-> marks]

\* initScheduler after `await readJson`: the active posts are scheduled in
\* one synchronous pass.
InitRead(s) ==
    /\ running
    /\ tasks[s].op = "init" /\ tasks[s].pc = "read"
    /\ LET active == FilterSeq(posts, IsActive)
           S0 == [SchedState EXCEPT !.tasks[s] = IdleTask]
       IN  /\ CountPast(active, now) <= Cardinality(FreeSlots(S0.tasks))
           /\ LET S1 == ScheduleAll(S0, active, now, "init")
              IN  /\ jobs' = S1.jobs
                  /\ timers' = S1.timers
                  /\ tasks' = S1.tasks
                  /\ marks' = S1.marks
    /\ UNCHANGED <<posts, now, running, nextId, restarts, deletes, calls, quiet>>

\* The list updatePostStatus(id, status, extra) writes, built from the list
\* it read; extra carries an error or nothing.
Updated(list, id, status, error) ==
    LET i == IndexOf(list, id)
    IN  [list EXCEPT ![i].status = status,
                     ![i].error = IF error = "" THEN @ ELSE error]

\* updatePostStatus after `await readJson`: findIndex, and the changed list
\* is built from the list just read; nothing is written for an unknown id.
UpdRead(s) ==
    /\ running
    /\ tasks[s].op = "upd" /\ tasks[s].pc = "read"
    /\ LET t == tasks[s]
       IN  tasks' = IF HasId(posts, t.id)
                    THEN [tasks EXCEPT ![s].pc = "write",
                                       ![s].snap = Updated(posts, t.id, t.status, t.error)]
                    ELSE [tasks EXCEPT ![s] = IdleTask]
    /\ UNCHANGED <<posts, jobs, timers, now, running, nextId, restarts, deletes, calls, marks, quiet>>

\* updatePostStatus: `await writeJson(POSTS_FILE, posts)`.
UpdWrite(s) ==
    /\ running
    /\ tasks[s].op = "upd" /\ tasks[s].pc = "write"
    /\ posts' = tasks[s].snap
    /\ tasks' = [tasks EXCEPT ![s] = IdleTask]
    /\ marks' = IF tasks[s].origin = "fire" /\ tasks[s].status = "posted"
                THEN [marks EXCEPT ![tasks[s].id].outcome = "recorded"]
                ELSE marks
    /\ UNCHANGED <<jobs, timers, now, running, nextId, restarts, deletes, calls, quiet>>

\* The record addPost builds: id, status 'pending' and createdAt, overridden
\* by the fields of postData.
NewPost(id, status, rec, at, parentId, error) ==
    [id |-> id, status |-> status, rec |-> rec, at |-> at, parentId |-> parentId,
     error |-> error]

\* ipcMain.handle('posts:create'): addPost(postData) up to `await writeJson`:
\* the list is read and the new record, with a new id, pushed onto it.  The
\* renderer sends status 'recurring' with a recurrence, 'pending' without.
AddCall(rec, at) ==
    /\ running
    /\ FreeSlots(tasks) # {}
    /\ nextId <= MaxPosts
    /\ nextId' = nextId + 1
    /\ LET status == IF rec.type = "none" THEN "pending" ELSE "recurring"
       IN  tasks' = Spawn(tasks,
                [IdleTask EXCEPT !.op = "add", !.pc = "write", !.id = nextId,
                                 !.origin = "ipc",
                                 !.snap = Append(posts, NewPost(nextId, status, rec, at, 0, ""))])
    /\ quiet' = FALSE
    /\ UNCHANGED <<posts, jobs, timers, now, running, restarts, deletes, calls, marks>>

\* addPost after `await writeJson`: the list is written and, unless
\* skipSchedule, schedulePostJob(newPost) runs.
AddWrite(s) ==
    /\ running
    /\ tasks[s].op = "add" /\ tasks[s].pc = "write"
    /\ posts' = tasks[s].snap
    /\ LET t == tasks[s]
           newPost == t.snap[Len(t.snap)]
           S0 == [SchedState EXCEPT !.tasks[s] = IdleTask]
           S1 == IF t.skip THEN S0 ELSE SchedulePostJob(S0, newPost, now, "add")
       IN  /\ jobs' = S1.jobs
           /\ timers' = S1.timers
           /\ tasks' = S1.tasks
           /\ marks' = [S1.marks EXCEPT ![t.id].fireAt =
                            IF ~t.skip /\ ~IsRec(newPost) /\ newPost.at > now
                            THEN newPost.at ELSE 0,
                                        ![t.id].due =
                            IF ~t.skip /\ IsRec(newPost)
                            THEN NextMatch(newPost.rec, newPost.at, now) ELSE 0]
    /\ UNCHANGED <<now, running, nextId, restarts, deletes, calls, quiet>>

\* ipcMain.handle('posts:delete'): deletePost(id, force) up to its first
\* await: the job the map holds for the id is cancelled and the entry removed.
\* The renderer asks for the deletion of a post its list shows.
DelCall(id, force) ==
    /\ running
    /\ HasId(posts, id)
    /\ FreeSlots(tasks) # {}
    /\ timers' = {j \in timers : j.h # jobs[id]}
    /\ jobs' = [jobs EXCEPT ![id] = 0]
    /\ tasks' = Spawn(tasks, [IdleTask EXCEPT !.op = "del", !.pc = "read", !.id = id,
                                              !.force = force, !.origin = "ipc",
                                              !.armed = \E j \in timers : j.h = jobs[id]])
    /\ marks' = [marks EXCEPT ![id].delReq = TRUE,
                              ![id].forceReq = @ \/ force]
    /\ deletes < MaxDeletes
    /\ deletes' = deletes + 1
    /\ UNCHANGED <<posts, now, running, nextId, restarts, calls>>
    /\ quiet' = FALSE

\* deletePost after `await readJson`: the record is filtered out (force) or
\* its status set to 'deleted'.
DelRead(s) ==
    /\ running
    /\ tasks[s].op = "del" /\ tasks[s].pc = "read"
    /\ LET t == tasks[s]
           i == IndexOf(posts, t.id)
       IN  tasks' = [tasks EXCEPT ![s].pc = "write",
                                  ![s].snap =
                                      IF t.force
                                      THEN FilterSeq(posts, LAMBDA p : p.id # t.id)
                                      ELSE IF i = 0 THEN posts
                                      ELSE [posts EXCEPT ![i].status = "deleted"]]
    /\ UNCHANGED <<posts, jobs, timers, now, running, nextId, restarts, deletes, calls, marks, quiet>>

\* deletePost: `await writeJson(POSTS_FILE, posts)`, and the call returns.
DelWrite(s) ==
    /\ running
    /\ tasks[s].op = "del" /\ tasks[s].pc = "write"
    /\ posts' = tasks[s].snap
    /\ tasks' = [tasks EXCEPT ![s] = IdleTask]
    /\ marks' = [marks EXCEPT ![tasks[s].id].force = @ \/ tasks[s].force,
                              ![tasks[s].id].soft =
                                  @ \/ (~tasks[s].force /\ tasks[s].armed)]
    /\ UNCHANGED <<jobs, timers, now, running, nextId, restarts, deletes, calls, quiet>>

MaxCalls == 2       \* the count of create-post calls per id saturates here

\* The callback of schedule.scheduleJob starts: createGroupPost is called
\* with the fields of the post the job was armed with.  A recurring job is
\* armed again for its next occurrence, a one-shot job is spent.
TimerFire(j) ==
    /\ running
    /\ j \in timers /\ j.next = now
    /\ FreeSlots(tasks) # {}
    /\ tasks' = Spawn(tasks, [IdleTask EXCEPT !.op = "fire", !.pc = "call", !.id = j.id,
                                              !.rec = j.rec, !.at = j.at, !.origin = "fire"])
    /\ timers' = IF j.rec.type = "none" THEN timers \ {j}
                 ELSE (timers \ {j}) \cup {[j EXCEPT !.next = NextMatch(j.rec, j.at, now)]}
    /\ calls' = [calls EXCEPT ![j.id] = IF @ < MaxCalls THEN @ + 1 ELSE @]
    /\ marks' = [marks EXCEPT ![j.id].firedAfter = @ \/ marks[j.id].soft]
    /\ quiet' = FALSE
    /\ UNCHANGED <<posts, jobs, now, running, nextId, restarts, deletes>>

\* `await createGroupPost(...)` settles: it resolves (ok) or throws.  A
\* one-shot post goes on to updatePostStatus, a recurring template to
\* addPost(history record, true); either reads the list next.
PostReturns(s, ok) ==
    /\ running
    /\ tasks[s].op = "fire" /\ tasks[s].pc = "call"
    /\ LET t == tasks[s]
           status == IF ok THEN "posted" ELSE "failed"
           error == IF ok THEN "" ELSE ErrApi
       IN  IF t.rec.type = "none"
           THEN /\ tasks' = IF HasId(posts, t.id)
                            THEN [tasks EXCEPT ![s] =
                                    [UpdTask(t.id, status, error, "fire") EXCEPT
                                        !.pc = "write",
                                        !.snap = Updated(posts, t.id, status, error)]]
                            ELSE [tasks EXCEPT ![s] = IdleTask]
                /\ marks' = IF ok /\ ~HasId(posts, t.id)
                            THEN [marks EXCEPT ![t.id].outcome = "unrecorded"]
                            ELSE marks
                /\ UNCHANGED nextId
           ELSE /\ nextId <= MaxPosts
                /\ nextId' = nextId + 1
                /\ tasks' = [tasks EXCEPT ![s] =
                                [IdleTask EXCEPT !.op = "add", !.pc = "write", !.id = nextId,
                                                 !.parentId = t.id, !.status = status,
                                                 !.skip = TRUE, !.origin = "fire",
                                                 !.snap = Append(posts,
                                                     NewPost(nextId, status, NoRec, now, t.id, error))]]
                /\ UNCHANGED marks
    /\ UNCHANGED <<posts, jobs, timers, now, running, restarts, deletes, calls, quiet>>

\* Time passes; a job that is due fires at its instant.  An instant of the
\* clock is a minute of the recurrence rule: a read or a write of posts.json
\* ends within the instant it began in, a createGroupPost call (pacing and
\* backoff waits) may last longer.
Tick ==
    /\ now < MaxTime
    /\ running => \A j \in timers : j.next # now
    /\ \A s \in Slots : tasks[s].pc \in {"idle", "call"}
    /\ now' = now + 1
    /\ UNCHANGED <<posts, jobs, timers, tasks, running, nextId, restarts, deletes, calls, marks, quiet>>

\* The process ends: the job map, the armed jobs and the functions in flight
\* are gone, posts.json stays.
Quit ==
    /\ running
    /\ restarts < MaxRestarts
    /\ running' = FALSE
    /\ restarts' = restarts + 1
    /\ jobs' = [i \in Ids |-> 0]
    /\ timers' = {}
    /\ tasks' = [s \in Slots |-> IdleTask]
    /\ marks' = [i \in Ids |-> [marks[i] EXCEPT !.recon = FALSE]]
    /\ UNCHANGED <<posts, now, nextId, deletes, calls, quiet>>

InitTask == [IdleTask EXCEPT !.op = "init", !.pc = "read", !.origin = "init"]

\* The process starts: background.js calls initScheduler().
Start ==
    /\ ~running
    /\ running' = TRUE
    /\ tasks' = Spawn(tasks, InitTask)
    /\ quiet' = TRUE
    /\ UNCHANGED <<posts, jobs, timers, now, nextId, restarts, deletes, calls, marks>>

SchedInit ==
    /\ posts = <<>>
    /\ jobs = [i \in Ids |-> 0]
    /\ timers = {}
    /\ tasks = [s \in Slots |-> IF s = 1 THEN InitTask ELSE IdleTask]
    /\ now = 0
    /\ running = TRUE
    /\ nextId = 1
    /\ restarts = 0
    /\ deletes = 0
    /\ calls = [i \in Ids |-> 0]
    /\ marks = [i \in Ids |-> NoMark]
    /\ quiet = TRUE

\* --------------------------------------------------------- API client
\* apiRequest of the main-process vrchat.js.  Times are milliseconds.
VARIABLES
    apiClock,         \* Date.now()
    lastRequestTime,  \* the module variable of the rate limiter
    callers,          \* the apiRequest calls, one per caller
    apiCalls,         \* how many apiRequest calls were made
    lastFetch,        \* when the latest fetch started (-1: none yet)
    minGap            \* the smallest time between two fetch starts so far

apiVars == <<apiClock, lastRequestTime, callers, apiCalls, lastFetch, minGap>>

MIN_REQUEST_INTERVAL == 200
MaxRetries == 3
InitialBackoff == 2000
MaxBackoff == 30000

MaxCallers == 2       \* callers that may be inside apiRequest together
ApiStart == 1000      \* the clock when the model starts (Date.now() is large)
MaxApiClock == 16000  \* the clock stops here
MaxApiCalls == 3      \* apiRequest calls made in all
Latency == 50         \* the step in which time passes inside the pacing interval

Callers == 1..MaxCallers
\* 200 and 404 are returned as they are; 429 and 5xx are retried.
Statuses == {200, 404, 429, 503}
Retryable(st) == st = 429 \/ st >= 500

IdleCaller ==
    [pc |-> "idle", attempt |-> 0, backoff |-> 0, wake |-> 0,
     fetches |-> 0, waits |-> <<>>, allBad |-> TRUE, out |-> ""]

MinNum(a, b) == IF a < b THEN a ELSE b

\* A backoff that does not grow.
NextBackoffFlat(b) == MinNum(b, MaxBackoff)

\* backoff = Math.min(backoff * 2, 30000)
NextBackoff(b) == MinNum(b * 2, MaxBackoff)

\* `await fetch(url, options)` starts.
StartFetch(c, cs) ==
    /\ callers' = [cs EXCEPT ![c].pc = "fetch", ![c].fetches = @ + 1]
    /\ lastFetch' = apiClock
    /\ minGap' = IF lastFetch >= 0 THEN MinNum(minGap, apiClock - lastFetch) ELSE minGap

\* apiRequest is called: the pacing check, and without a wait
\* lastRequestTime = Date.now() and the first fetch.
ApiCall(c) ==
    /\ callers[c].pc = "idle"
    /\ apiCalls < MaxApiCalls
    /\ apiCalls' = apiCalls + 1
    /\ LET elapsed == apiClock - lastRequestTime
           fresh == [IdleCaller EXCEPT !.backoff = InitialBackoff]
       IN  IF elapsed < MIN_REQUEST_INTERVAL
           THEN /\ callers' = [callers EXCEPT ![c] =
                        [fresh EXCEPT !.pc = "pace",
                                      !.wake = apiClock + (MIN_REQUEST_INTERVAL - elapsed)]]
                /\ UNCHANGED <<lastRequestTime, lastFetch, minGap>>
           ELSE /\ lastRequestTime' = apiClock
                /\ StartFetch(c, [callers EXCEPT ![c] = fresh])
    /\ UNCHANGED apiClock

\* The pacing setTimeout expires: lastRequestTime = Date.now(), first fetch.
PaceWake(c) ==
    /\ callers[c].pc = "pace"
    /\ apiClock >= callers[c].wake
    /\ lastRequestTime' = apiClock
    /\ StartFetch(c, callers)
    /\ UNCHANGED <<apiClock, apiCalls>>

\* A loop that waits and fetches again after any response.
RetriesAnyStatus(st, attempt) == attempt < MaxRetries

\* What apiRequest does with a response of status st on attempt `attempt`:
\* wait and retry, or return the response.
Retries(st, attempt) ==
    \/ st = 429 /\ attempt < MaxRetries
    \/ st >= 500 /\ attempt < MaxRetries

\* A response arrives.
FetchReturns(c, st) ==
    /\ callers[c].pc = "fetch"
    /\ LET k == callers[c]
           bad == k.allBad /\ Retryable(st)
       IN  callers' =
               IF Retries(st, k.attempt)
               THEN [callers EXCEPT ![c].pc = "backoff", ![c].allBad = bad,
                                    ![c].wake = apiClock + k.backoff,
                                    ![c].waits = Append(@, k.backoff)]
               ELSE [callers EXCEPT ![c].pc = "done", ![c].allBad = bad,
                                    ![c].out = "returned"]
    /\ UNCHANGED <<apiClock, lastRequestTime, apiCalls, lastFetch, minGap>>

\* The backoff setTimeout expires: the backoff doubles, `continue` raises
\* attempt, and the loop fetches again or, past maxRetries, ends in the throw.
BackoffWake(c) ==
    /\ callers[c].pc = "backoff"
    /\ apiClock >= callers[c].wake
    /\ LET next == [callers EXCEPT ![c].backoff = NextBackoff(@), ![c].attempt = @ + 1]
       IN  IF next[c].attempt <= MaxRetries
           THEN StartFetch(c, next)
           ELSE /\ callers' = [next EXCEPT ![c].pc = "done", ![c].out = "threw"]
                /\ UNCHANGED <<lastFetch, minGap>>
    /\ UNCHANGED <<apiClock, lastRequestTime, apiCalls>>

\* The caller has its result and may call again.
ApiReturn(c) ==
    /\ callers[c].pc = "done"
    /\ callers' = [callers EXCEPT ![c] = IdleCaller]
    /\ UNCHANGED <<apiClock, lastRequestTime, apiCalls, lastFetch, minGap>>

Wakes == {callers[c].wake : c \in {d \in Callers : callers[d].pc \in {"pace", "backoff"}}}

\* The instants time may pass to: the next timer expiries, and a short step
\* while a call would still have to wait for the request interval.
NextInstants ==
    Wakes \cup (IF apiClock - lastRequestTime < MIN_REQUEST_INTERVAL
                THEN {apiClock + Latency} ELSE {})

\* Time passes, up to the next timer expiry.
ApiAdvance(t) ==
    /\ t > apiClock /\ t <= MaxApiClock
    /\ \A w \in Wakes : t <= w /\ apiClock < w
    /\ apiClock' = t
    /\ UNCHANGED <<lastRequestTime, callers, apiCalls, lastFetch, minGap>>

ApiInit ==
    /\ apiClock = ApiStart
    /\ lastRequestTime = 0
    /\ callers = [c \in Callers |-> IdleCaller]
    /\ apiCalls = 0
    /\ lastFetch = -1
    /\ minGap = MIN_REQUEST_INTERVAL

\* ------------------------------------------------ group permission cache
\* getUserGroups and refreshUserGroups over the persisted document
\* group-permissions.json.  A call is a task: it yields at every await, and
\* other calls and the clock move in between.

VARIABLES
    cacheFile,      \* the persisted document, NoFile until the first write
    cacheClock,     \* Date.now(), in milliseconds
    cacheTicks,     \* how often the clock has moved
    cacheCalls,     \* how many calls were made
    memCache,       \* the Map `memCache`: per group, when its detail was stored
    reqs            \* the calls in progress, by slot

cacheVars == <<cacheFile, cacheClock, cacheTicks, cacheCalls, memCache, reqs>>

MEM_CACHE_TTL == 300000
GROUP_CACHE_TTL == 1800000
REFRESH_COOLDOWN == 300000

MaxReqs == 2          \* calls that may be in progress together
MaxCacheTicks == 2    \* clock movements
MaxCacheCalls == 2    \* calls made in all
MaxGroups == 2        \* groups the remote service knows

Reqs == 1..MaxReqs
Users == {1, 2}
GroupIds == 1..MaxGroups
\* group.ownerId of the live data: group 1 belongs to user 1, the others to
\* somebody else.
OwnerOf(g) == IF g = 1 THEN 1 ELSE 0
\* What checkAnnouncementPermission gives for a group a pass looks up: true,
\* false, a throw.  A pass gets one verdict per group.
Verdicts == {"yes", "no", "err"}
VerdictMaps == [GroupIds -> Verdicts]
\* The steps in which time passes: a millisecond, just under the cooldown,
\* the time to live of the cache.
TimeSteps == {1, REFRESH_COOLDOWN - 1, GROUP_CACHE_TTL}

\* new Date(ms).toISOString() and new Date(iso).getTime(): the stamp keeps
\* seconds and milliseconds apart, as the string does.
NoStamp == [secs |-> -1, ms |-> 0]
Iso(t) == [secs |-> t \div 1000, ms |-> t % 1000]
GetTime(iso) == iso.secs * 1000 + iso.ms

NoFile == [lastFullCheck |-> NoStamp, lastRefresh |-> NoStamp, groups |-> <<>>,
           written |-> FALSE]
DefaultCache == [lastFullCheck |-> NoStamp, lastRefresh |-> NoStamp, groups |-> <<>>]

\* readJson(GROUP_CACHE_FILE, default)
LoadGroupCache(file) ==
    IF file.written
    THEN [lastFullCheck |-> file.lastFullCheck, lastRefresh |-> file.lastRefresh,
          groups |-> file.groups]
    ELSE DefaultCache

\* writeJson(GROUP_CACHE_FILE, cache)
SaveGroupCache(cache) ==
    [lastFullCheck |-> cache.lastFullCheck, lastRefresh |-> cache.lastRefresh,
     groups |-> cache.groups, written |-> TRUE]

\* Math.floor in the place of Math.ceil.
FloorDiv(a, b) == a \div b

\* Math.ceil(a / b)
CeilDiv(a, b) == IF a % b = 0 THEN a \div b ELSE (a \div b) + 1

\* The group object of the live list, as the remote service sends it.
GroupData(g) == [groupId |-> g, ownerId |-> OwnerOf(g)]

Entry(g, owner, perm, at, err) ==
    [isOwner |-> owner, hasPermission |-> perm, checkedAt |-> at, error |-> err,
     groupData |-> GroupData(g)]

\* const cached = existingCache.groups[gid]; cached && cached.checkedAt
HasVerdict(existing, g) ==
    g \in DOMAIN existing.groups /\ existing.groups[g].checkedAt # NoStamp

\* A smart pass that looks up the groups the user owns as well.
SmartLookupsAll(live, userId, existing) ==
    {g \in live : ~HasVerdict(existing, g)}

\* A smart pass that asks the remote service about every group that is not
\* the user's own, cached or not.
CheckAndCachePermissionsAnew(live, userId, existing, verdict, at) ==
    [g \in (DOMAIN existing.groups) \cup live |->
        IF g \notin live THEN existing.groups[g]
        ELSE IF OwnerOf(g) = userId THEN Entry(g, TRUE, TRUE, at, FALSE)
        ELSE Entry(g, FALSE, verdict[g] = "yes", at, verdict[g] = "err")]

\* The groups of a live list that checkAndCachePermissions looks up remotely:
\* not owned by the user and without a cached entry.
SmartLookups(live, userId, existing) ==
    {g \in live : OwnerOf(g) # userId /\ ~HasVerdict(existing, g)}

\* checkAndCachePermissions(allGroups, userId, existingCache): the entries of
\* the existing cache, overlaid with one entry per live group.
CheckAndCachePermissions(live, userId, existing, verdict, at) ==
    [g \in (DOMAIN existing.groups) \cup live |->
        IF g \notin live THEN existing.groups[g]
        ELSE IF OwnerOf(g) = userId THEN Entry(g, TRUE, TRUE, at, FALSE)
        ELSE IF HasVerdict(existing, g)
             THEN [existing.groups[g] EXCEPT !.groupData = GroupData(g)]
        ELSE Entry(g, FALSE, verdict[g] = "yes", at, verdict[g] = "err")]

\* The groups forceCheckAllPermissions looks up remotely.
ForceLookups(live, userId) == {g \in live : OwnerOf(g) # userId}

\* A forced pass that records the verdict of a lookup for the user's own
\* groups as well.
ForceCheckOwnersToo(live, userId, verdict, at) ==
    [g \in live |->
        Entry(g, OwnerOf(g) = userId, verdict[g] = "yes", at, FALSE)]

\* A forced pass that gives a group whose check threw no entry.
ForceCheckSkipFailed(live, userId, verdict, at) ==
    [g \in {h \in live : OwnerOf(h) = userId \/ verdict[h] # "err"} |->
        IF OwnerOf(g) = userId THEN Entry(g, TRUE, TRUE, at, FALSE)
        ELSE Entry(g, FALSE, verdict[g] = "yes", at, FALSE)]

\* forceCheckAllPermissions(allGroups, userId): one fresh entry per live group.
ForceCheckAllPermissions(live, userId, verdict, at) ==
    [g \in live |->
        IF OwnerOf(g) = userId THEN Entry(g, TRUE, TRUE, at, FALSE)
        ELSE Entry(g, FALSE, verdict[g] = "yes", at, FALSE)]

\* One element of a returned list: the payload, groupId, isOwner and the
\* marker.
Listed(g, info) ==
    [groupId |-> g, ownerId |-> info.groupData.ownerId, isOwner |-> info.isOwner,
     hasAnnouncementPermission |-> TRUE]

\* A list of every cached group, permitted or not.
BuildGroupList(groups) == {Listed(g, groups[g]) : g \in DOMAIN groups}

\* buildFilteredGroupList(groupsCache)
BuildFilteredGroupList(groups) ==
    {Listed(g, groups[g]) : g \in {h \in DOMAIN groups : groups[h].hasPermission}}

NoResult ==
    [groups |-> {}, needsScan |-> FALSE, refreshed |-> FALSE,
     cooldownRemaining |-> 0, error |-> ""]

IdleReq ==
    [op |-> "idle", pc |-> "idle", user |-> 0, cache |-> DefaultCache,
     absent |-> FALSE, now |-> 0, live |-> {}, updated |-> <<>>,
     looked |-> {}, requested |-> {}, failed |-> {}, granted |-> {},
     net |-> 0, wrote |-> FALSE, res |-> NoResult]

\* memCache.get(key) is absent
NoEntry == -1

\* getMemCached(`group:${groupId}`) returns the stored detail.
MemCached(g) ==
    memCache[g] # NoEntry /\ cacheClock - memCache[g] < MEM_CACHE_TTL

\* getGroupDetail for the groups a permission pass looks up: a stored detail
\* that is fresh is used and stays; otherwise the stale entry is deleted, the
\* request is made, and its answer is stored unless the request threw.
MemAfter(lookups, verdict) ==
    [g \in GroupIds |->
        IF g \notin lookups \/ MemCached(g) THEN memCache[g]
        ELSE IF verdict[g] = "err" THEN NoEntry
        ELSE cacheClock]

\* A slot is free once its call has ended; the result stays readable until
\* the slot is taken again.  A new call takes the lowest free slot.
FreeReq(r) ==
    /\ reqs[r].pc \in {"idle", "done"}
    /\ \A q \in Reqs : q < r => reqs[q].pc \notin {"idle", "done"}

\* A call starts: what it read, and when.
Began(op, u) ==
    [IdleReq EXCEPT !.op = op, !.user = u, !.cache = LoadGroupCache(cacheFile),
                    !.absent = ~cacheFile.written, !.now = cacheClock]

\* A cache that counts as fresh for the 5 minutes of the cooldown only.
IsFreshBriefly(cache, t) ==
    /\ cache.lastFullCheck # NoStamp
    /\ t - GetTime(cache.lastFullCheck) < REFRESH_COOLDOWN
    /\ DOMAIN cache.groups # {}

\* cacheAge < GROUP_CACHE_TTL && Object.keys(cache.groups).length > 0
IsFresh(cache, t) ==
    /\ cache.lastFullCheck # NoStamp
    /\ t - GetTime(cache.lastFullCheck) < GROUP_CACHE_TTL
    /\ DOMAIN cache.groups # {}

\* A cache that never demands a scan.
NeedsScanNever(cache) == FALSE

\* !cache.lastFullCheck || Object.keys(cache.groups).length === 0
NeedsScan(cache) == cache.lastFullCheck = NoStamp \/ DOMAIN cache.groups = {}

\* getUserGroups(userId) up to its first network call: the load, Date.now()
\* and the three cases.
GetUserGroups(r, u) ==
    /\ FreeReq(r)
    /\ cacheCalls < MaxCacheCalls
    /\ cacheCalls' = cacheCalls + 1
    /\ LET b == Began("get", u)
       IN  reqs' = [reqs EXCEPT ![r] =
               IF IsFresh(b.cache, b.now)
               THEN [b EXCEPT !.pc = "done",
                              !.res.groups = BuildFilteredGroupList(b.cache.groups)]
               ELSE IF NeedsScan(b.cache)
               THEN [b EXCEPT !.pc = "done", !.res.needsScan = TRUE]
               ELSE [b EXCEPT !.pc = "fetch"]]
    /\ UNCHANGED <<cacheFile, cacheClock, cacheTicks, memCache>>

\* REFRESH_COOLDOWN - (now - new Date(cache.lastRefresh).getTime())
CooldownRemaining(cache, t) == REFRESH_COOLDOWN - (t - GetTime(cache.lastRefresh))

\* if (cache.lastRefresh) { ... if (cooldownRemaining > 0)
InCooldown(cache, t) ==
    cache.lastRefresh # NoStamp /\ CooldownRemaining(cache, t) > 0

\* refreshUserGroups(userId) up to its first network call: the load,
\* Date.now() and the cooldown check.
RefreshUserGroups(r, u) ==
    /\ FreeReq(r)
    /\ cacheCalls < MaxCacheCalls
    /\ cacheCalls' = cacheCalls + 1
    /\ LET b == Began("refresh", u)
       IN  reqs' = [reqs EXCEPT ![r] =
               IF InCooldown(b.cache, b.now)
               THEN [b EXCEPT !.pc = "done",
                              !.res.groups = BuildFilteredGroupList(b.cache.groups),
                              !.res.cooldownRemaining =
                                  CeilDiv(CooldownRemaining(b.cache, b.now), 1000)]
               ELSE [b EXCEPT !.pc = "fetch"]]
    /\ UNCHANGED <<cacheFile, cacheClock, cacheTicks, memCache>>

\* A call that notes the error of the fetch and goes on to save.
FetchFailedSaves(q) == [q EXCEPT !.pc = "save", !.net = @ + 1, !.res.error = "fetch"]

\* fetchAllGroupsFromAPI throws: the call ends there with the error.
FetchFailed(q) == [q EXCEPT !.pc = "done", !.net = @ + 1, !.res.error = "fetch"]

\* The network part of a refresh: fetchAllGroupsFromAPI(userId) returns the
\* live list or throws, and the permission pass over the live list follows,
\* smart for getUserGroups, forced for refreshUserGroups.
Scan(r, live, ok, verdict) ==
    /\ reqs[r].pc = "fetch"
    /\ LET q == reqs[r]
           smart == q.op = "get"
           lookups == IF smart THEN SmartLookups(live, q.user, q.cache)
                      ELSE ForceLookups(live, q.user)
           updated == IF smart
                      THEN CheckAndCachePermissions(live, q.user, q.cache, verdict,
                                                    Iso(cacheClock))
                      ELSE ForceCheckAllPermissions(live, q.user, verdict,
                                                    Iso(cacheClock))
           requested == {g \in lookups : ~MemCached(g)}
       IN  /\ reqs' = [reqs EXCEPT ![r] =
                  IF ok
                  THEN [q EXCEPT !.pc = "save", !.live = live, !.updated = updated,
                                 !.looked = lookups, !.requested = requested,
                                 !.failed = {g \in lookups : verdict[g] = "err"},
                                 !.granted = {g \in lookups : verdict[g] = "yes"},
                                 !.net = @ + 1 + Cardinality(requested)]
                  ELSE FetchFailed(q)]
           /\ memCache' = IF ok THEN MemAfter(lookups, verdict) ELSE memCache
    /\ UNCHANGED <<cacheFile, cacheClock, cacheTicks, cacheCalls>>

\* newCache, saveGroupCache(newCache) and the result.
SaveAndReturn(r) ==
    /\ reqs[r].pc = "save"
    /\ LET q == reqs[r]
           smart == q.op = "get"
           newCache == [lastFullCheck |-> Iso(cacheClock),
                        lastRefresh |-> IF smart THEN q.cache.lastRefresh
                                        ELSE Iso(cacheClock),
                        groups |-> q.updated]
       IN  /\ cacheFile' = SaveGroupCache(newCache)
           /\ reqs' = [reqs EXCEPT ![r] =
                  [q EXCEPT !.pc = "done", !.wrote = TRUE,
                            !.res.groups = BuildFilteredGroupList(q.updated),
                            !.res.refreshed = ~smart]]
    /\ UNCHANGED <<cacheClock, cacheTicks, cacheCalls, memCache>>

\* Time passes.
CacheTick(d) ==
    /\ cacheTicks < MaxCacheTicks
    /\ cacheTicks' = cacheTicks + 1
    /\ cacheClock' = cacheClock + d
    /\ UNCHANGED <<cacheFile, cacheCalls, memCache, reqs>>

CacheInit ==
    /\ cacheFile = NoFile
    /\ cacheClock = 0
    /\ cacheTicks = 0
    /\ cacheCalls = 0
    /\ memCache = [g \in GroupIds |-> NoEntry]
    /\ reqs = [r \in Reqs |-> IdleReq]

\* ------------------------------------------------------ permission check
\* checkAnnouncementPermission(groupId) of the API client.
VARIABLES
    permCheck         \* the permission check: its position and what it was sent

permVars == <<permCheck>>

MaxRoles == 2         \* role ids of a group

RoleIds == 1..MaxRoles
Permissions == {"group-announcement-manage", "*", "group-members-manage"}

\* The role lists the remote service may send: some roles of the group,
\* each with its permission strings.
RoleLists == UNION {[D -> SUBSET Permissions] : D \in SUBSET RoleIds}

IdleCheck ==
    [pc |-> "idle", found |-> FALSE, myRoleIds |-> {}, roles |-> <<>>,
     rolesFetched |-> FALSE, granted |-> FALSE, threw |-> FALSE]

\* A check that grants when any role of the group carries the permission,
\* the caller's or not.
AnyRoleGrants(myRoleIds, roles) ==
    \E id \in DOMAIN roles :
        "group-announcement-manage" \in roles[id] \/ "*" \in roles[id]

\* roles.some(role => myRoleIds.includes(role.id) &&
\*     (role.permissions.includes('group-announcement-manage') ||
\*      role.permissions.includes('*')))
SomeRoleGrants(myRoleIds, roles) ==
    \E id \in DOMAIN roles :
        /\ id \in myRoleIds
        /\ "group-announcement-manage" \in roles[id] \/ "*" \in roles[id]

\* checkAnnouncementPermission(groupId) up to `await getGroupDetail(groupId)`.
CheckAnnouncementPermission ==
    /\ permCheck.pc \in {"idle", "done"}
    /\ permCheck' = [IdleCheck EXCEPT !.pc = "detail"]

\* getGroupDetail settles: it throws, returns null (the response was not ok)
\* or returns the group, whose myMember.roleIds may be missing or empty.  With
\* no group or no role id the check ends with false.
DetailReturns(outcome, ids) ==
    /\ permCheck.pc = "detail"
    /\ permCheck' =
        IF outcome = "throw" THEN [permCheck EXCEPT !.pc = "done", !.threw = TRUE]
        ELSE IF outcome = "null" THEN [permCheck EXCEPT !.pc = "done"]
        ELSE IF ids = {}
             THEN [permCheck EXCEPT !.pc = "done", !.found = TRUE]
        ELSE [permCheck EXCEPT !.pc = "roles", !.found = TRUE, !.myRoleIds = ids]

\* getGroupRoles settles: it throws, returns [] (the response was not ok) or
\* returns the role list; the check ends with roles.some(...).
RolesReturn(outcome, roles) ==
    /\ permCheck.pc = "roles"
    /\ LET list == IF outcome = "ok" THEN roles ELSE <<>>
       IN  permCheck' =
            IF outcome = "throw"
            THEN [permCheck EXCEPT !.pc = "done", !.rolesFetched = TRUE, !.threw = TRUE]
            ELSE [permCheck EXCEPT !.pc = "done", !.rolesFetched = TRUE,
                                   !.roles = list,
                                   !.granted = SomeRoleGrants(permCheck.myRoleIds, list)]

Outcomes == {"ok", "null", "throw"}

PermInit == permCheck = IdleCheck

\* ------------------------------------------------------ document storage
\* readJson and writeJson: storage.js, and the variant of background.js with
\* the `encrypted` option.
VARIABLES
    storeEnv,         \* which storage module the build has; isEncryptionAvailable()
    files,            \* the content of each file of the data directory
    storeOps,         \* how many reads, writes and damages were made
    lastRead          \* the latest readJson call: what it found and returned

storeVars == <<storeEnv, files, storeOps, lastRead>>

MaxDocs == 2          \* documents a caller may write
MaxStoreOps == 4      \* reads, writes and damages in all

FileNames == {"posts.json", "auth.json"}
Docs == 1..MaxDocs
Defaults == {0, -1}   \* the defaultValue of a caller: [] or {}, null
Builds == {"storage", "background"}

\* auth.json is read and written with { encrypted: true }.
IsEncrypted(name) == name = "auth.json"

\* The content of a file: none, the text JSON.stringify made of a document,
\* the buffer safeStorage.encryptString made of that text, or bytes that are
\* neither.
Missing == [kind |-> "missing", doc |-> 0]
Garbage == [kind |-> "garbage", doc |-> 0]
Stringify(d) == [kind |-> "plain", doc |-> d]
EncryptString(text) == [kind |-> "enc", doc |-> text.doc]

\* fs.readFile, safeStorage.decryptString and JSON.parse: each throws on a
\* content that is not of its kind.
Parsed(content, encrypted) ==
    IF content.kind = "missing" THEN [error |-> "ENOENT", doc |-> 0]
    ELSE IF encrypted
         THEN IF content.kind = "enc" THEN [error |-> "", doc |-> content.doc]
              ELSE [error |-> "decrypt", doc |-> 0]
    ELSE IF content.kind = "plain" THEN [error |-> "", doc |-> content.doc]
    ELSE [error |-> "parse", doc |-> 0]

\* readJson of storage.js: the default for ENOENT, any other error is thrown
\* again.  The options argument of the callers is not a parameter here.
ReadJsonStorage(content, defaultValue) ==
    LET r == Parsed(content, FALSE)
    IN  IF r.error = "" THEN [raised |-> FALSE, value |-> r.doc]
        ELSE IF r.error = "ENOENT" THEN [raised |-> FALSE, value |-> defaultValue]
        ELSE [raised |-> TRUE, value |-> 0]

\* readJson of background.js: the default for every error.
ReadJsonBackground(content, defaultValue, encrypted, available) ==
    LET r == Parsed(content, encrypted /\ available)
    IN  IF r.error = "" THEN [raised |-> FALSE, value |-> r.doc]
        ELSE [raised |-> FALSE, value |-> defaultValue]

ReadJson(build, content, defaultValue, encrypted, available) ==
    IF build = "storage" THEN ReadJsonStorage(content, defaultValue)
    ELSE ReadJsonBackground(content, defaultValue, encrypted, available)

\* writeJson: the whole file is replaced.
WriteJson(build, data, encrypted, available) ==
    IF build = "background" /\ encrypted /\ available
    THEN EncryptString(Stringify(data))
    ELSE Stringify(data)

NoRead ==
    [name |-> "", kind |-> "", doc |-> 0, defaultValue |-> 0, raised |-> FALSE,
     value |-> 0]

\* The process starts with one of the storage modules, on a machine where
\* safeStorage is available or not.
StoreStart(build, available) ==
    /\ ~storeEnv.chosen
    /\ storeEnv' = [chosen |-> TRUE, build |-> build, available |-> available]
    /\ UNCHANGED <<files, storeOps, lastRead>>

\* readJson(filename, defaultValue, options)
StoreRead(name, defaultValue) ==
    /\ storeEnv.chosen
    /\ storeOps < MaxStoreOps
    /\ storeOps' = storeOps + 1
    /\ LET r == ReadJson(storeEnv.build, files[name], defaultValue,
                         IsEncrypted(name), storeEnv.available)
       IN  lastRead' = [name |-> name, kind |-> files[name].kind,
                        doc |-> files[name].doc, defaultValue |-> defaultValue,
                        raised |-> r.raised, value |-> r.value]
    /\ UNCHANGED <<storeEnv, files>>

\* writeJson(filename, data, options)
StoreWrite(name, data) ==
    /\ storeEnv.chosen
    /\ storeOps < MaxStoreOps
    /\ storeOps' = storeOps + 1
    /\ files' = [files EXCEPT ![name] =
                    WriteJson(storeEnv.build, data, IsEncrypted(name),
                              storeEnv.available)]
    /\ UNCHANGED <<storeEnv, lastRead>>

\* A file of the data directory is damaged from outside the program: it is
\* there, and its bytes are neither JSON nor an encrypted buffer.
Damage(name) ==
    /\ storeOps < MaxStoreOps
    /\ storeOps' = storeOps + 1
    /\ files[name].kind # "missing"
    /\ files' = [files EXCEPT ![name] = Garbage]
    /\ UNCHANGED <<storeEnv, lastRead>>

StoreInit ==
    /\ storeEnv = [chosen |-> FALSE, build |-> "storage", available |-> FALSE]
    /\ files = [n \in FileNames |-> Missing]
    /\ storeOps = 0
    /\ lastRead = NoRead

\* ------------------------------------------------------------ session
\* The credential file and the operations of the API client that use it.
VARIABLES
    authFile,         \* auth.json: the cookies of the session, by name
    authTasks,        \* the operations in progress or ended, one per slot
    authCalls,        \* how many operations were started
    loggedOut         \* logout has returned and no login or refresh began since

authVars == <<authFile, authTasks, authCalls, loggedOut>>

MaxAuthTasks == 2     \* operations that may be in progress together
MaxAuthCalls == 3     \* operations started in all

AuthSlots == 1..MaxAuthTasks
CookieNames == {"auth", "twoFactorAuth"}

\* Cookie values, as the characters after the first '=' of `name=value`.
CookieValues == {<<"a">>, <<"b", "=">>}

\* The set-cookie header of a response, by name: none, or one cookie.
NoCookies == <<>>
SetCookies ==
    {NoCookies} \cup UNION {[{n} -> CookieValues] : n \in CookieNames}

\* const [k, v] = c.split('=') keeps of a value what stands before its first
\* '='.
ValueKept(v) ==
    LET cut == {i \in 1..Len(v) : v[i] = "="}
    IN  IF cut = {} THEN v ELSE SubSeq(v, 1, MinOf(cut) - 1)

\* A merge that keeps a stored cookie when the response sets the same name.
MergeKeepingStored(current, new) ==
    [n \in (DOMAIN current) \cup (DOMAIN new) |->
        IF n \in DOMAIN current THEN ValueKept(current[n]) ELSE ValueKept(new[n])]

\* The cookieMap of saveCookies: the stored cookies, then the new ones set
\* over them.
MergeCookies(current, new) ==
    [n \in (DOMAIN current) \cup (DOMAIN new) |->
        IF n \in DOMAIN new THEN ValueKept(new[n]) ELSE ValueKept(current[n])]

\* The operations that call saveCookies(res).
SavesCookies(op) == op \in {"login", "verify2FA"}

AuthOps == {"login", "verify2FA", "getCurrentUser", "createGroupPost", "logout"}

IdleAuth ==
    [op |-> "idle", pc |-> "idle", hadCookie |-> FALSE, setCookie |-> NoCookies,
     before |-> NoCookies, after |-> NoCookies, snap |-> NoCookies, net |-> 0,
     res |-> ""]

FreeAuth(a) ==
    /\ authTasks[a].pc \in {"idle", "done"}
    /\ \A b \in AuthSlots : b < a => authTasks[b].pc \notin {"idle", "done"}

\* An operation starts.  login makes its request at once; logout clears
\* memCache and goes on to write the file; the others first await
\* getAuthHeaders().
AuthCall(a, op) ==
    /\ FreeAuth(a)
    /\ authCalls < MaxAuthCalls
    /\ authCalls' = authCalls + 1
    /\ authTasks' = [authTasks EXCEPT ![a] =
            IF op = "login" THEN [IdleAuth EXCEPT !.op = op, !.pc = "fetch", !.net = 1]
            ELSE IF op = "logout" THEN [IdleAuth EXCEPT !.op = op, !.pc = "write"]
            ELSE [IdleAuth EXCEPT !.op = op, !.pc = "headers"]]
    /\ memCache' = IF op = "logout" THEN [g \in GroupIds |-> NoEntry] ELSE memCache
    /\ loggedOut' = IF SavesCookies(op) THEN FALSE ELSE loggedOut
    /\ UNCHANGED <<authFile, cacheFile, cacheClock, cacheTicks, cacheCalls, reqs>>

\* getAuthHeaders() has read auth.json.  getCurrentUser returns null when
\* there is no Cookie header; every other operation makes its request.
AuthHeaders(a) ==
    /\ authTasks[a].pc = "headers"
    /\ LET has == DOMAIN authFile.cookies # {}
       IN  authTasks' = [authTasks EXCEPT ![a] =
               IF authTasks[a].op = "getCurrentUser" /\ ~has
               THEN [@ EXCEPT !.pc = "done", !.res = "none",
                              !.after = authFile.cookies]
               ELSE [@ EXCEPT !.pc = "fetch", !.hadCookie = has, !.net = @ + 1]]
    /\ UNCHANGED <<authFile, authCalls, loggedOut, cacheVars>>

\* The response arrives, with or without set-cookie headers.  login and
\* verify2FA go on to saveCookies, which reads auth.json when there is a
\* header; the other operations return.
AuthResponse(a, sc, ok) ==
    /\ authTasks[a].pc = "fetch"
    /\ LET t == authTasks[a]
           res == IF ok THEN "data"
                  ELSE IF t.op = "getCurrentUser" THEN "none" ELSE "error"
           got == [t EXCEPT !.setCookie = sc, !.before = authFile.cookies, !.res = res]
       IN  authTasks' = [authTasks EXCEPT ![a] =
               IF SavesCookies(t.op) /\ sc # NoCookies
               THEN [got EXCEPT !.pc = "saveRead"]
               ELSE [got EXCEPT !.pc = "done", !.after = authFile.cookies]]
    /\ UNCHANGED <<authFile, authCalls, loggedOut, cacheVars>>

\* saveCookies after `await readJson`: the cookie string to write is built
\* from the credential just read.
AuthSaveRead(a) ==
    /\ authTasks[a].pc = "saveRead"
    /\ authTasks' = [authTasks EXCEPT ![a].pc = "saveWrite",
                                      ![a].snap = MergeCookies(authFile.cookies,
                                                               authTasks[a].setCookie)]
    /\ UNCHANGED <<authFile, authCalls, loggedOut, cacheVars>>

\* saveCookies: `await writeJson(AUTH_FILE, ...)`, and the operation returns.
AuthSaveWrite(a) ==
    /\ authTasks[a].pc = "saveWrite"
    /\ authFile' = [cookies |-> authTasks[a].snap]
    /\ authTasks' = [authTasks EXCEPT ![a].pc = "done", ![a].after = authTasks[a].snap,
                                      ![a].snap = NoCookies]
    /\ UNCHANGED <<authCalls, loggedOut, cacheVars>>

\* logout: `await writeJson(AUTH_FILE, {})`, and it returns true.
LogoutWrite(a) ==
    /\ authTasks[a].op = "logout" /\ authTasks[a].pc = "write"
    /\ authFile' = [cookies |-> NoCookies]
    /\ authTasks' = [authTasks EXCEPT ![a].pc = "done", ![a].res = "true"]
    /\ loggedOut' = TRUE
    /\ UNCHANGED <<authCalls, cacheVars>>

AuthInit ==
    /\ authFile = [cookies |-> NoCookies]
    /\ authTasks = [a \in AuthSlots |-> IdleAuth]
    /\ authCalls = 0
    /\ loggedOut = FALSE

\* ------------------------------------------------------ specifications
vars == <<schedVars, apiVars, cacheVars, permVars, storeVars, authVars>>

Init == SchedInit /\ ApiInit /\ CacheInit /\ PermInit /\ StoreInit /\ AuthInit

SchedOnly == UNCHANGED <<apiVars, cacheVars, permVars, storeVars, authVars>>
ApiOnly == UNCHANGED <<schedVars, cacheVars, permVars, storeVars, authVars>>
CacheOnly == UNCHANGED <<schedVars, apiVars, permVars, storeVars, authVars>>
PermOnly == UNCHANGED <<schedVars, apiVars, cacheVars, storeVars, authVars>>
StoreOnly == UNCHANGED <<schedVars, apiVars, cacheVars, permVars, authVars>>
AuthOnly == UNCHANGED <<schedVars, apiVars, permVars, storeVars>>
ScanOnly == UNCHANGED <<schedVars, apiVars, permVars, storeVars, authFile, authTasks, authCalls>>

\* The job scheduler.
Next ==
    \/ \E s \in Slots : InitRead(s) /\ SchedOnly
    \/ \E s \in Slots : UpdRead(s) /\ SchedOnly
    \/ \E s \in Slots : UpdWrite(s) /\ SchedOnly
    \/ \E rec \in RecInputs, at \in AtInputs : AddCall(rec, at) /\ SchedOnly
    \/ \E s \in Slots : AddWrite(s) /\ SchedOnly
    \/ \E id \in Ids, force \in BOOLEAN : DelCall(id, force) /\ SchedOnly
    \/ \E s \in Slots : DelRead(s) /\ SchedOnly
    \/ \E s \in Slots : DelWrite(s) /\ SchedOnly
    \/ \E j \in timers : TimerFire(j) /\ SchedOnly
    \/ \E s \in Slots, ok \in BOOLEAN : PostReturns(s, ok) /\ SchedOnly
    \/ Tick /\ SchedOnly
    \/ Quit /\ SchedOnly
    \/ Start /\ SchedOnly

Spec == Init /\ [][Next]_vars

\* The job scheduler with weekly templates.
NextWeekly ==
    \/ \E s \in Slots : InitRead(s) /\ SchedOnly
    \/ \E s \in Slots : UpdRead(s) /\ SchedOnly
    \/ \E s \in Slots : UpdWrite(s) /\ SchedOnly
    \/ \E rec \in WeeklyInputs, at \in AtInputs : AddCall(rec, at) /\ SchedOnly
    \/ \E s \in Slots : AddWrite(s) /\ SchedOnly
    \/ \E id \in Ids, force \in BOOLEAN : DelCall(id, force) /\ SchedOnly
    \/ \E s \in Slots : DelRead(s) /\ SchedOnly
    \/ \E s \in Slots : DelWrite(s) /\ SchedOnly
    \/ \E j \in timers : TimerFire(j) /\ SchedOnly
    \/ \E s \in Slots, ok \in BOOLEAN : PostReturns(s, ok) /\ SchedOnly
    \/ Tick /\ SchedOnly
    \/ Quit /\ SchedOnly
    \/ Start /\ SchedOnly

SpecWeekly == Init /\ [][NextWeekly]_vars

\* The API client.
NextApi ==
    \/ \E c \in Callers : ApiCall(c) /\ ApiOnly
    \/ \E c \in Callers : PaceWake(c) /\ ApiOnly
    \/ \E c \in Callers, st \in Statuses : FetchReturns(c, st) /\ ApiOnly
    \/ \E c \in Callers : BackoffWake(c) /\ ApiOnly
    \/ \E c \in Callers : ApiReturn(c) /\ ApiOnly
    \/ \E t \in NextInstants : ApiAdvance(t) /\ ApiOnly

SpecApi == Init /\ [][NextApi]_vars

\* The group permission cache.
NextCache ==
    \/ \E r \in Reqs, u \in Users : GetUserGroups(r, u) /\ CacheOnly
    \/ \E r \in Reqs, u \in Users : RefreshUserGroups(r, u) /\ CacheOnly
    \/ \E r \in Reqs, live \in SUBSET GroupIds, ok \in BOOLEAN,
          verdict \in VerdictMaps :
           Scan(r, live, ok, verdict) /\ CacheOnly
    \/ \E r \in Reqs : SaveAndReturn(r) /\ CacheOnly
    \/ \E d \in TimeSteps : CacheTick(d) /\ CacheOnly

SpecCache == Init /\ [][NextCache]_vars

\* The permission check.
NextPerm ==
    \/ CheckAnnouncementPermission /\ PermOnly
    \/ \E outcome \in Outcomes, ids \in SUBSET RoleIds :
           DetailReturns(outcome, ids) /\ PermOnly
    \/ \E outcome \in Outcomes, roles \in RoleLists :
           RolesReturn(outcome, roles) /\ PermOnly

SpecPerm == Init /\ [][NextPerm]_vars

\* The document storage.
NextStore ==
    \/ \E build \in Builds, available \in BOOLEAN :
           StoreStart(build, available) /\ StoreOnly
    \/ \E name \in FileNames, defaultValue \in Defaults :
           StoreRead(name, defaultValue) /\ StoreOnly
    \/ \E name \in FileNames, data \in Docs : StoreWrite(name, data) /\ StoreOnly
    \/ \E name \in FileNames : Damage(name) /\ StoreOnly

SpecStore == Init /\ [][NextStore]_vars

\* The session: the operations on the credential, beside one forced refresh
\* of the group permissions whose lookups fill memCache.
NextAuth ==
    \/ \E a \in AuthSlots, op \in AuthOps : AuthCall(a, op) /\ AuthOnly
    \/ \E a \in AuthSlots : AuthHeaders(a) /\ AuthOnly
    \/ \E a \in AuthSlots, sc \in SetCookies, ok \in BOOLEAN :
           AuthResponse(a, sc, ok) /\ AuthOnly
    \/ \E a \in AuthSlots : AuthSaveRead(a) /\ AuthOnly
    \/ \E a \in AuthSlots : AuthSaveWrite(a) /\ AuthOnly
    \/ \E a \in AuthSlots : LogoutWrite(a) /\ AuthOnly
    \/ RefreshUserGroups(1, 1) /\ cacheCalls = 0 /\ loggedOut' = FALSE /\ ScanOnly
    \/ Scan(1, GroupIds, TRUE, [g \in GroupIds |-> "yes"]) /\ loggedOut' = loggedOut /\ ScanOnly
    \/ SaveAndReturn(1) /\ loggedOut' = loggedOut /\ ScanOnly

SpecAuth == Init /\ [][NextAuth]_vars
\* ------------------------------------------------- claims: job scheduler

Armed(id) == \E j \in timers : j.id = id
InitSettled == running /\ \A s \in Slots : tasks[s].origin # "init"

\* C1: once initScheduler and the status updates it started have completed,
\* every one-shot pending post whose time had passed at process start is
\* persisted with status 'missed', and no timer is armed for it.
C1_StartupMarksMissed ==
    (InitSettled /\ quiet) =>
        \A id \in Ids :
            (marks[id].recon /\ ~marks[id].delReq) =>
                /\ HasId(posts, id)
                /\ PostOf(posts, id).status = "missed"
                /\ ~Armed(id)

\* The record a firing of a recurring template is to append.
IsHistoryOf(h, parent) ==
    /\ h.rec = NoRec
    /\ h.parentId = parent
    /\ h.status \in {"posted", "failed"}
    /\ h.status = "failed" => h.error = ErrApi

HistoryWrite(s) ==
    /\ running /\ running'
    /\ tasks[s].op = "add" /\ tasks[s].skip /\ tasks[s].pc = "write"
    /\ tasks'[s].op = "idle"

\* C2: a recurring template's persisted status never becomes posted, failed
\* or missed, and each firing appends exactly one new record to the persisted
\* list: fresh id, recurrence null, parentId the template's id, status
\* 'posted', or 'failed' with the error.
C2_TemplateKeepsStatus ==
    \A i \in 1..Len(posts) :
        IsRec(posts[i]) => posts[i].status \in {"recurring", "deleted"}

C2_FiringAppendsOne ==
    \A s \in Slots :
        HistoryWrite(s) =>
            \E h \in {tasks[s].snap[Len(tasks[s].snap)]} :
                /\ posts' = Append(posts, h)
                /\ ~HasId(posts, h.id)
                /\ IsHistoryOf(h, tasks[s].parentId)

C2_RecurringHistory == [](C2_TemplateKeepsStatus) /\ [][C2_FiringAppendsOne]_schedVars

\* A one-shot post that addPost armed for a future time, that no delete was
\* requested for, in a process that has been alive since.
C3_Eligible(id) == marks[id].fireAt > 0 /\ ~marks[id].delReq /\ restarts = 0

\* C3: for such a post at most one create-post call is ever made, exactly one
\* has been made once the fire point has passed, and when the call succeeded
\* the record's persisted status became 'posted'.
C3_OneShotPostedOnce ==
    \A id \in Ids :
        C3_Eligible(id) =>
            /\ calls[id] <= 1
            /\ now > marks[id].fireAt => calls[id] = 1
            /\ marks[id].outcome # "unrecorded"

\* C4: after a soft deletePost of a post with an armed timer has returned, no
\* firing of the id starts, getPosts(false) omits the record and
\* getPosts(true) returns it with status 'deleted'.
C4_SoftDeleteSticks ==
    \A id \in Ids :
        (marks[id].soft /\ ~marks[id].forceReq) =>
            /\ ~marks[id].firedAfter
            /\ ~HasId(GetPosts(posts, FALSE, ""), id)
            /\ HasId(GetPosts(posts, TRUE, ""), id)
            /\ PostOf(GetPosts(posts, TRUE, ""), id).status = "deleted"

\* C5: after deletePost(id, true) has returned no getPosts call returns a
\* record with that id.
C5_ForceDeleteRemoves ==
    \A id \in Ids :
        marks[id].force =>
            \A incl \in BOOLEAN : ~HasId(GetPosts(posts, incl, ""), id)

\* --------------------------------------------------- claims: API client

\* C6: any two fetches started through apiRequest, by any callers and on any
\* attempt, start at least MIN_REQUEST_INTERVAL apart.
C6_GlobalSpacing == minGap >= MIN_REQUEST_INTERVAL

\* A call that has ended after nothing but 429 and 5xx responses.
Exhausted(c) == callers[c].pc = "done" /\ callers[c].allBad

\* C7: a call all of whose responses were 429 or 5xx made exactly 4 fetches
\* and waited 2 s, 4 s and 8 s before the retries, each wait the previous one
\* doubled and capped at 30 s.
C7_BackoffSchedule ==
    \A c \in Callers :
        Exhausted(c) =>
            /\ callers[c].fetches = 4
            /\ callers[c].waits = <<2000, 4000, 8000>>
            /\ \A i \in 1..2 :
                   callers[c].waits[i + 1] = MinNum(2 * callers[c].waits[i], 30000)

C7_Witness ==
    \E c \in Callers : Exhausted(c) /\ callers[c].fetches = 4

\* C8: a call whose fourth response is still 429 or 5xx ends in the thrown
\* request-failed error, not in the response being returned.
C8_FinalFailureRaises ==
    \A c \in Callers : Exhausted(c) => callers[c].out = "threw"

\* ------------------------------------------- claims: group permission cache

\* A refreshUserGroups call that has ended and that found the persisted
\* lastRefresh less than 5 minutes old.
CooledDown(r) ==
    /\ reqs[r].op = "refresh" /\ reqs[r].pc = "done"
    /\ reqs[r].cache.lastRefresh # NoStamp
    /\ reqs[r].now - GetTime(reqs[r].cache.lastRefresh) < REFRESH_COOLDOWN

C10_NeverScanned ==
    \A r \in Reqs :
        (reqs[r].op = "get" /\ reqs[r].pc \in {"fetch", "save", "done"} /\ reqs[r].absent) =>
            /\ reqs[r].pc = "done"
            /\ reqs[r].res.groups = {}
            /\ reqs[r].res.needsScan = TRUE
            /\ reqs[r].res.error = ""
            /\ reqs[r].net = 0
            /\ ~reqs[r].wrote

C10_Witness ==
    \E r \in Reqs :
        /\ reqs[r].op = "get" /\ reqs[r].pc = "done" /\ reqs[r].absent
        /\ cacheClock > 0

\* A call whose permission pass over the live list has been made.
Scanned(r) ==
    reqs[r].pc = "save" \/ (reqs[r].pc = "done" /\ reqs[r].wrote)

\* C11: for every group of the live list that the user owns, the smart and
\* the forced pass record isOwner=true and hasPermission=true, and no
\* permission lookup and no group-detail request is made for the group.
C11_OwnerShortcut ==
    \A r \in Reqs :
        Scanned(r) =>
            \A g \in reqs[r].live :
                OwnerOf(g) = reqs[r].user =>
                    /\ g \in DOMAIN reqs[r].updated
                    /\ reqs[r].updated[g].isOwner
                    /\ reqs[r].updated[g].hasPermission
                    /\ g \notin reqs[r].looked
                    /\ g \notin reqs[r].requested

\* A smart pass met a group the user owns that the cache did not hold yet.
C11_Witness ==
    \E r \in Reqs :
        /\ Scanned(r) /\ reqs[r].op = "get"
        /\ \E g \in reqs[r].live :
               OwnerOf(g) = reqs[r].user /\ g \notin DOMAIN reqs[r].cache.groups

\* A getUserGroups call past its load of the cache document.
GetLoaded(r) == reqs[r].op = "get" /\ reqs[r].pc \in {"fetch", "save", "done"}

\* The age, at the call's Date.now(), of the last full check it loaded.
CacheAge(r) == reqs[r].now - GetTime(reqs[r].cache.lastFullCheck)

\* C13: when the lastFullCheck a getUserGroups call loads is less than 30
\* minutes old and the cached group map is not empty, the call returns the
\* permission-filtered cached list with needsScan=false, makes no network
\* call and does not write the cache document.
C13_FreshCacheServed ==
    \A r \in Reqs :
        ( /\ GetLoaded(r)
          /\ reqs[r].cache.lastFullCheck # NoStamp
          /\ CacheAge(r) < 1800000
          /\ DOMAIN reqs[r].cache.groups # {} ) =>
            /\ reqs[r].pc = "done"
            /\ reqs[r].res.groups = BuildFilteredGroupList(reqs[r].cache.groups)
            /\ reqs[r].res.needsScan = FALSE
            /\ reqs[r].res.error = ""
            /\ reqs[r].net = 0
            /\ ~reqs[r].wrote

\* A cache between 5 and 30 minutes old was served, with a group in the list.
C13_Witness ==
    \E r \in Reqs :
        /\ GetLoaded(r) /\ reqs[r].pc = "done"
        /\ reqs[r].cache.lastFullCheck # NoStamp
        /\ CacheAge(r) >= 300000 /\ CacheAge(r) < 1800000
        /\ reqs[r].res.groups # {}

\* C14: getUserGroups returns needsScan=true only when no full check has
\* ever completed (none is recorded in the document it loaded); when one has
\* completed and is 30 minutes old or older, the call fetches the live list,
\* persists the merged result and returns needsScan=false.
C14_ScanOnlyBeforeFirstCheck ==
    \A r \in Reqs :
        (GetLoaded(r) /\ reqs[r].pc = "done" /\ reqs[r].res.error = "") =>
            /\ reqs[r].res.needsScan => reqs[r].cache.lastFullCheck = NoStamp
            /\ (reqs[r].cache.lastFullCheck # NoStamp /\ CacheAge(r) >= 1800000) =>
                   /\ reqs[r].res.needsScan = FALSE
                   /\ reqs[r].net >= 1
                   /\ reqs[r].wrote

\* C15: in a smart refresh every group of the live list that is not the
\* user's own and has a cached entry with checkedAt keeps the verdict of that
\* entry and causes no permission lookup and no request; a lookup is made
\* only for groups without a cached entry.
C15_SmartReusesVerdicts ==
    \A r \in Reqs :
        (Scanned(r) /\ reqs[r].op = "get") =>
            /\ \A g \in reqs[r].live :
                   (OwnerOf(g) # reqs[r].user /\ g \in DOMAIN reqs[r].cache.groups) =>
                       /\ reqs[r].updated[g].hasPermission =
                              reqs[r].cache.groups[g].hasPermission
                       /\ reqs[r].updated[g].isOwner = reqs[r].cache.groups[g].isOwner
                       /\ g \notin reqs[r].looked
            /\ reqs[r].requested \subseteq reqs[r].looked
            /\ reqs[r].looked \subseteq reqs[r].live \ DOMAIN reqs[r].cache.groups

\* A smart refresh met a cached group that is not the user's own, with a
\* verdict 30 minutes old or older, and a group without a cached entry.
C15_Witness ==
    \E r \in Reqs :
        /\ Scanned(r) /\ reqs[r].op = "get"
        /\ \E g \in reqs[r].live :
               /\ OwnerOf(g) # reqs[r].user /\ g \in DOMAIN reqs[r].cache.groups
               /\ reqs[r].now - GetTime(reqs[r].cache.groups[g].checkedAt) >= 1800000
        /\ reqs[r].looked # {}

\* The forced pass of a refreshUserGroups call asked the remote service for
\* the detail of every group of the live list that is not the user's own.
C16_AllRequested ==
    \A r \in Reqs :
        (Scanned(r) /\ reqs[r].op = "refresh") =>
            \A g \in reqs[r].live :
                OwnerOf(g) # reqs[r].user => g \in reqs[r].requested

\* The save of a refreshUserGroups call stamps lastFullCheck and lastRefresh
\* with the time of the save.
C16_StampsBoth ==
    \A r \in Reqs :
        (reqs[r].op = "refresh" /\ reqs[r].pc = "save" /\ reqs'[r].pc = "done") =>
            /\ cacheFile'.lastFullCheck = Iso(cacheClock)
            /\ cacheFile'.lastRefresh = Iso(cacheClock)

\* C16: a refreshUserGroups call outside the cooldown re-checks every group
\* of the live list that is not the user's own with at least a group-detail
\* request, using neither a persisted verdict nor detail held in memory, and
\* on success sets lastFullCheck and lastRefresh to the completion time.
C16_ForcedRechecksAll == [](C16_AllRequested) /\ [][C16_StampsBoth]_cacheVars

\* A call that has returned a list, and the group map the list was built
\* from: the one it saved, or the one it loaded.
Returned(r) ==
    reqs[r].op \in {"get", "refresh"} /\ reqs[r].pc = "done" /\ reqs[r].res.error = ""
ListSource(r) == IF reqs[r].wrote THEN reqs[r].updated ELSE reqs[r].cache.groups

\* C17: every list getUserGroups or refreshUserGroups returns, on any path,
\* holds only groups whose cache entry has hasPermission=true, each with the
\* payload of the entry, its isOwner and the permission-granted marker.
C17_OnlyPermittedListed ==
    \A r \in Reqs :
        Returned(r) =>
            \A x \in reqs[r].res.groups :
                /\ x.groupId \in DOMAIN ListSource(r)
                /\ ListSource(r)[x.groupId].hasPermission
                /\ x.isOwner = ListSource(r)[x.groupId].isOwner
                /\ x.ownerId = ListSource(r)[x.groupId].groupData.ownerId
                /\ x.hasAnnouncementPermission = TRUE

\* A call served a list from the loaded cache and left a group without
\* permission out of it.
C17_Witness ==
    \E r \in Reqs :
        /\ Returned(r) /\ ~reqs[r].wrote
        /\ reqs[r].res.groups # {}
        /\ \E g \in DOMAIN ListSource(r) : ~ListSource(r)[g].hasPermission

\* C18: in every persisted group cache, each entry with isOwner=true has
\* hasPermission=true.
C18_OwnerImpliesPermission ==
    cacheFile.written =>
        \A g \in DOMAIN cacheFile.groups :
            cacheFile.groups[g].isOwner => cacheFile.groups[g].hasPermission

\* The persisted cache holds an owner entry that a smart pass of another
\* user carried over.
C18_Witness ==
    /\ cacheFile.written
    /\ \E r \in Reqs : \E g \in reqs[r].live :
        /\ reqs[r].op = "get" /\ reqs[r].pc = "done" /\ reqs[r].wrote
        /\ OwnerOf(g) # reqs[r].user
        /\ g \in DOMAIN cacheFile.groups
        /\ cacheFile.groups[g].isOwner
        /\ cacheFile.groups = reqs[r].updated

\* C29: the cache is kept per user, so what a call for user u returns comes
\* from cache state written for u: a group is listed as the user's own only
\* for the user who owns it.
C29_PerUserCache ==
    \A r \in Reqs :
        Returned(r) =>
            \A x \in reqs[r].res.groups :
                x.isOwner => OwnerOf(x.groupId) = reqs[r].user

\* ------------------------------------------------ claims: permission check

\* C30: for a group the caller does not own the check grants permission
\* exactly when the caller's role-id set is non-empty and a role of the list
\* whose id is in the set carries 'group-announcement-manage' or '*'; with an
\* empty role-id set it denies and the role list is not fetched.
C30_GrantsByOwnRoles ==
    (permCheck.pc = "done" /\ permCheck.found /\ ~permCheck.threw) =>
        /\ permCheck.granted <=>
              /\ permCheck.myRoleIds # {}
              /\ \E id \in permCheck.myRoleIds \cap DOMAIN permCheck.roles :
                    permCheck.roles[id] \cap {"group-announcement-manage", "*"} # {}
        /\ permCheck.myRoleIds = {} => ~permCheck.rolesFetched

\* The check denied although a role of the group carries the permission: the
\* caller does not have that role.
C30_Witness ==
    /\ permCheck.pc = "done" /\ permCheck.found /\ ~permCheck.granted
    /\ permCheck.myRoleIds # {}
    /\ \E id \in DOMAIN permCheck.roles : "*" \in permCheck.roles[id]

\* ------------------------------------------------ claims: document storage

\* C27: a read returns the caller's default and does not raise when the
\* document is missing and when it is present but cannot be decrypted or
\* parsed; after a write the next read returns what was written.
C27_ReadNeverRaises ==
    lastRead.name # "" =>
        /\ ~lastRead.raised
        /\ lastRead.kind \in {"missing", "garbage"} =>
              lastRead.value = lastRead.defaultValue
        /\ lastRead.kind \in {"plain", "enc"} => lastRead.value = lastRead.doc

\* -------------------------------------------------------- claims: session

\* C26: after logout the stored credential and the in-memory cache are both
\* empty, and getCurrentUser, when no credential is stored, returns none
\* without a network call.
C26_LogoutClears ==
    /\ loggedOut =>
          /\ DOMAIN authFile.cookies = {}
          /\ \A g \in GroupIds : memCache[g] = NoEntry
    /\ \A a \in AuthSlots :
          (/\ authTasks[a].op = "getCurrentUser"
           /\ authTasks[a].pc = "done"
           /\ ~authTasks[a].hadCookie) =>
              (authTasks[a].res = "none" /\ authTasks[a].net = 0)

\* An operation has returned after a response that set cookies.
GotCookies(a) ==
    /\ authTasks[a].pc = "done"
    /\ authTasks[a].net > 0
    /\ authTasks[a].setCookie # NoCookies

\* C28: when an operation has returned after a response that set cookies,
\* the persisted credential holds the response's value under every name the
\* response set and every other stored cookie as it was.
C28_CookiesMerged ==
    \A a \in AuthSlots :
        GotCookies(a) =>
            LET t == authTasks[a]
            IN  /\ DOMAIN t.after = (DOMAIN t.before) \cup (DOMAIN t.setCookie)
                /\ \A n \in DOMAIN t.after :
                      t.after[n] = IF n \in DOMAIN t.setCookie THEN t.setCookie[n]
                                   ELSE t.before[n]

\* --------------------------------------------- claims: job scheduler (2)

\* A weekly template that addPost armed, in a process that has been alive
\* since and in which no delete was requested.
C12_Template(id) ==
    /\ marks[id].due > 0 /\ deletes = 0 /\ restarts = 0
    /\ HasId(posts, id)
    /\ PostOf(posts, id).rec.type = "weekly"

\* The instants up to now at which the rule of the template matches, from
\* the first one after it was armed.
C12_Instants(id) ==
    {u \in Times : /\ marks[id].due <= u /\ u <= now
                   /\ Matches(PostOf(posts, id).rec, PostOf(posts, id).at, u)}

C12_History(id) == {i \in 1..Len(posts) : posts[i].parentId = id}

\* C12: a weekly template fires at exactly the instants whose weekday is in
\* its day set and whose time of day is that of scheduledAt, once per instant:
\* when the firings of the instants so far are over there are as many
\* firings, and as many history records with the template as parent, as there
\* were such instants, and the template's status is still 'recurring'.
C12_WeeklyFiresPerInstant ==
    \A id \in Ids :
        (C12_Template(id) /\ \A j \in timers : j.id = id => j.next > now) =>
            /\ calls[id] = Cardinality(C12_Instants(id))
            /\ PostOf(posts, id).status = "recurring"
            /\ (\A s \in Slots : tasks[s].op = "idle") =>
                   Cardinality(C12_History(id)) = Cardinality(C12_Instants(id))

\* The persisted status of a one-shot post that is neither a template nor a
\* history record; "absent" when the list holds no such record.
OneShotStatus(list, id) ==
    IF HasId(list, id) /\ ~IsRec(PostOf(list, id)) /\ PostOf(list, id).parentId = 0
    THEN PostOf(list, id).status
    ELSE "absent"

\* The changes of the state machine of a one-shot post: creation as pending,
\* pending to an outcome, pending to 'deleted', 'deleted' to removal.
C19_Legal(a, b) ==
    \/ a = b
    \/ a = "absent" /\ b = "pending"
    \/ a = "pending" /\ b \in {"posted", "failed", "missed", "deleted"}
    \/ a = "deleted" /\ b = "absent"

\* C19: the persisted status of a one-shot post changes only from pending to
\* posted, failed or missed, from pending to 'deleted', and from 'deleted' to
\* removal, under every interleaving of the scheduler's operations.
C19_StatusMachine ==
    [][\A id \in Ids : C19_Legal(OneShotStatus(posts, id), OneShotStatus(posts', id))]_schedVars

\* C20: a status is set to 'missed' only by the startup reconciliation: every
\* updatePostStatus(id, 'missed') call in progress was made by initScheduler,
\* none by an operation of the normal run such as addPost.
C20_MissedOnlyAtStartup ==
    \A s \in Slots :
        (tasks[s].op = "upd" /\ tasks[s].status = "missed") => tasks[s].origin = "init"

\* The record the list holds for an id, as a sequence of one or no record.
RecordOf(list, id) == IF HasId(list, id) THEN <<PostOf(list, id)>> ELSE <<>>

\* C21: no update to the persisted list is lost: a write of posts.json
\* changes the record of an id only on behalf of an operation on that id, so
\* the record every other operation left is still what the list holds.
C21_NoLostUpdate ==
    [][\A id \in Ids :
          RecordOf(posts', id) # RecordOf(posts, id) =>
              \E s \in Slots : tasks[s].pc = "write" /\ tasks[s].id = id]_schedVars

\* The jobs armed for an id, and the job callbacks of the id in progress.
TimersOf(id) == {j \in timers : j.id = id}
ExecutionsOf(id) == {s \in Slots : tasks[s].op = "fire" /\ tasks[s].id = id}

\* C22: for every post id at most one timer is armed and at most one
\* execution is in progress at a time, and a one-shot post causes at most one
\* create-post call over its whole life.
C22_OneTimerOneExecution ==
    \A id \in Ids :
        /\ Cardinality(TimersOf(id)) <= 1
        /\ Cardinality(ExecutionsOf(id)) <= 1
        /\ (HasId(posts, id) /\ ~IsRec(PostOf(posts, id))) => calls[id] <= 1

\* C23: a post id is a key of the job map exactly when a job is armed for
\* the post: every armed id is a key, and the id of a one-shot post that has
\* fired, was marked missed or was deleted is not.
C23_MapIsArmedSet ==
    \A id \in Ids : (jobs[id] # 0) <=> Armed(id)

\* The step in which the addPost call of slot s writes the list and returns.
AddReturns(s) ==
    /\ tasks[s].op = "add" /\ tasks[s].pc = "write"
    /\ running'
    /\ posts' = tasks[s].snap
    /\ tasks'[s] # tasks[s]

\* The record an addPost call in progress is about to persist.
Added(s) == tasks[s].snap[Len(tasks[s].snap)]

\* schedulePostJob has an execution to register for the record: it is
\* recurring, or its time has not passed.
HasExecution(p, t) == IsRec(p) \/ p.at >= t

NewlyArmed(id) == \E j \in timers' \ timers : j.id = id

\* What addPost does in the step in which it returns: the record has a new
\* id, the status the caller gave or 'pending', and is in the persisted list;
\* it is armed when skipSchedule is not set, and not when it is set.
C24_AddStep(s) ==
    LET p == Added(s)
    IN  /\ p.id = tasks[s].id
        /\ \A i \in 1..(Len(tasks[s].snap) - 1) : tasks[s].snap[i].id # p.id
        /\ p.status = (IF tasks[s].skip THEN tasks[s].status
                       ELSE IF IsRec(p) THEN "recurring" ELSE "pending")
        /\ HasId(posts', p.id)
        /\ (~tasks[s].skip /\ HasExecution(p, now)) => NewlyArmed(p.id)
        /\ tasks[s].skip => (timers' = timers /\ jobs' = jobs)

\* A history record is neither armed nor a key of the job map.
C24_HistoryUnarmed ==
    \A id \in Ids :
        (HasId(posts, id) /\ PostOf(posts, id).parentId # 0) =>
            (~Armed(id) /\ jobs[id] = 0)

OneShotFires(j) ==
    /\ j \in timers /\ j.rec.type = "none"
    /\ running /\ running'
    /\ deletes' = deletes
    /\ timers' = timers \ {j}

\* The history records of failed firings of the template id.
FailedFirings(id) ==
    {i \in 1..Len(posts) : posts[i].parentId = id /\ posts[i].status = "failed"}

\* A template whose firing failed, in a process that has been alive since
\* and with no deletion requested, is still 'recurring' and armed, and every
\* job of a template waits for an instant of its rule.
C25_TemplateStaysArmed ==
    /\ \A id \in Ids :
        (FailedFirings(id) # {} /\ HasId(posts, id) /\ deletes = 0 /\ restarts = 0) =>
            (PostOf(posts, id).status = "recurring" /\ Armed(id))
    /\ \A j \in timers :
        j.rec.type # "none" =>
            (j.next >= now /\ (j.next = Never \/ Matches(j.rec, j.at, j.next)))

\* C25: a failed post operation is never retried automatically: a one-shot
\* post with status 'failed' is never executed again, and a template whose
\* firing failed stays 'recurring' and armed for its next occurrence only.
C25_NoAutomaticRetry ==
    /\ [](C25_TemplateStaysArmed)
    /\ [][\A j \in timers :
            (OneShotFires(j) /\ HasId(posts, j.id)) =>
                PostOf(posts, j.id).status # "failed"]_schedVars

\* The step in which the deletePost call of slot s writes the list, and the
\* record of its id changes.
DeleteLands(s) ==
    /\ tasks[s].op = "del" /\ tasks[s].pc = "write"
    /\ running'
    /\ posts' = tasks[s].snap
    /\ tasks'[s] = IdleTask
    /\ RecordOf(posts', tasks[s].id) # RecordOf(posts, tasks[s].id)

\* C31: deletePost cancels and removes the job of the id before it reads or
\* writes the list, so from the moment the persisted record changes to
\* 'deleted' or is removed no timer of the id is armed, for soft and for
\* force delete.
C31_NoTimerOnceDeleted ==
    [][\A s \in Slots :
          DeleteLands(s) => ~\E j \in timers' : j.id = tasks[s].id]_schedVars

\* The step in which the execution in slot s ends: the job callback has
\* nothing more to do.
ExecutionEnds(s) ==
    /\ tasks[s].origin = "fire"
    /\ running'
    /\ tasks'[s] = IdleTask

\* The post the execution in slot s is of.
ExecutedPost(s) == IF tasks[s].op = "add" THEN tasks[s].parentId ELSE tasks[s].id

\* C32: a firing that is in progress when deletePost is requested for its
\* post runs to its end and its outcome is written to the persisted list:
\* the status of a one-shot post, the history record of a template.
C32_OutcomeStillWritten ==
    [][\A s \in Slots :
          (ExecutionEnds(s) /\ marks[ExecutedPost(s)].delReq) =>
              /\ tasks[s].op \in {"upd", "add"}
              /\ HasId(posts', tasks[s].id)
              /\ PostOf(posts', tasks[s].id).status = tasks[s].status]_schedVars

\* ------------------------------------------------ claims: API client (2)

\* The callers whose fetch has started and not yet returned.
InFlight == {c \in Callers : callers[c].pc = "fetch"}

\* C33: outbound calls are serialized: at no time are two requests of the
\* API client in flight together.
C33_OneRequestInFlight == Cardinality(InFlight) <= 1

\* The i-th wait of the one backoff value a call keeps: 2 s doubled i - 1
\* times, capped at 30 s.
RECURSIVE WaitNo(_)
WaitNo(i) == IF i = 1 THEN InitialBackoff ELSE MinNum(2 * WaitNo(i - 1), MaxBackoff)

\* C35: one apiRequest call ends after at most 4 fetches: 429 and 5xx
\* retries share one attempt counter and one backoff value whatever the mix
\* of the two, and a call waits and fetches again only while every response
\* so far was 429 or 5xx, the first other response ending it.
C35_AtMostFourFetches ==
    \A c \in Callers :
        LET k == callers[c]
        IN  /\ k.fetches <= MaxRetries + 1
            /\ k.pc \in {"fetch", "backoff"} => k.allBad
            /\ k.pc = "fetch" => k.attempt = k.fetches - 1 /\ Len(k.waits) = k.attempt
            /\ k.pc = "backoff" => k.attempt = k.fetches - 1 /\ Len(k.waits) = k.fetches
            /\ k.pc = "done" /\ ~k.allBad => Len(k.waits) = k.fetches - 1
            /\ \A i \in 1..Len(k.waits) : k.waits[i] = WaitNo(i)

\* A call that ended on a good response after two retried ones.
C35_Witness ==
    \E c \in Callers :
        /\ callers[c].pc = "done" /\ ~callers[c].allBad
        /\ callers[c].fetches = 3
        /\ callers[c].waits = <<2000, 4000>>

\* --------------------------------------------- claims: job scheduler (3)

\* The step in which the initScheduler call of slot s has read the list and
\* scheduled the active posts.
InitEnds(s) ==
    /\ tasks[s].op = "init" /\ tasks[s].pc = "read"
    /\ running'
    /\ tasks'[s] # tasks[s]

\* The records a restart arms: the recurring ones of status 'recurring' or
\* 'pending' whatever their scheduledAt, and the one-shot 'pending' ones
\* whose scheduledAt has not passed at time t.
ArmedAtStartup(p, t) ==
    \/ IsRec(p) /\ p.status \in {"recurring", "pending"}
    \/ ~IsRec(p) /\ p.status = "pending" /\ p.at >= t

ArmedIds(S) == {j.id : j \in S}

HistoryOf(list) == {i \in 1..Len(list) : list[i].parentId # 0}

\* C36: every history record has no recurrence and a parentId that is the
\* id of a record present in the list, which is a recurring template.
C36_HistoryHasParent ==
    \A i \in HistoryOf(posts) :
        /\ posts[i].rec = NoRec
        /\ HasId(posts, posts[i].parentId)
        /\ IsRec(PostOf(posts, posts[i].parentId))

\* --------------------------------- claims: group permission cache (2)

\* A getUserGroups call that made a smart refresh and has returned.
SmartRefreshed(r) == reqs[r].op = "get" /\ reqs[r].pc = "done" /\ reqs[r].wrote

\* C37: after a smart refresh every group of the cache the call persisted and
\* of the list it returned belongs to the live list the refresh fetched.
C37_OnlyLiveGroups ==
    \A r \in Reqs :
        SmartRefreshed(r) =>
            /\ DOMAIN reqs[r].updated \subseteq reqs[r].live
            /\ \A e \in reqs[r].res.groups : e.groupId \in reqs[r].live

\* A call that made a refresh, smart or forced, and has the map of entries
\* it saves.
Refreshed(r) == reqs[r].pc = "save" \/ (reqs[r].pc = "done" /\ reqs[r].wrote)

\* The entry records a denial with a stamp.
Denied(info) == ~info.hasPermission /\ info.checkedAt # NoStamp

\* C38: when the permission check of a group fails with an error during a
\* smart or a forced refresh, the refresh still gives every group of the live
\* list its entry, the other groups it checked with the verdict of their own
\* check, and the failed group is stored as a denial with a checkedAt stamp;
\* a smart refresh that finds a stamped denial in the cache it loaded keeps
\* it without checking the group again, a forced refresh checks every group
\* that is not the user's own.
C38_FailedCheckIsDenial ==
    \A r \in Reqs :
        Refreshed(r) =>
            LET q == reqs[r]
            IN  /\ q.live \subseteq DOMAIN q.updated
                /\ \A g \in q.failed : Denied(q.updated[g])
                /\ \A g \in q.looked \ q.failed :
                       /\ q.updated[g].hasPermission = (g \in q.granted)
                       /\ q.updated[g].checkedAt # NoStamp
                /\ q.op = "get" =>
                       \A g \in q.live \cap DOMAIN q.cache.groups :
                           (OwnerOf(g) # q.user /\ Denied(q.cache.groups[g])) =>
                               /\ g \notin q.looked
                               /\ q.updated[g].hasPermission = FALSE
                               /\ q.updated[g].checkedAt = q.cache.groups[g].checkedAt
                /\ q.op = "refresh" =>
                       \A g \in q.live : OwnerOf(g) # q.user => g \in q.looked

\* A refresh in which the check of one group threw and the check of another
\* granted, saved with both entries.
C38_Witness ==
    \E r \in Reqs :
        /\ reqs[r].pc = "done" /\ reqs[r].wrote
        /\ reqs[r].failed # {} /\ reqs[r].granted # {}

\* A call whose fetch of the live list failed.
FetchError(r) == reqs[r].res.error # ""

\* The step in which the fetch of the live list of call r fails.
FetchFails(r) == reqs[r].pc = "fetch" /\ FetchError(r)'

\* C39: when the fetch of the live list fails during a smart or a forced
\* refresh, the call ends with that error and returns no list, and the
\* persisted cache document is left as it was: groups, lastFullCheck and
\* lastRefresh keep their values, the call writes nothing.
C39_FailedFetchKeepsCache ==
    /\ [](\A r \in Reqs :
            FetchError(r) =>
                /\ reqs[r].pc = "done" /\ ~reqs[r].wrote
                /\ reqs[r].res.groups = {} /\ ~reqs[r].res.refreshed)
    /\ [][\A r \in Reqs : FetchFails(r) => cacheFile' = cacheFile]_cacheVars

\* A forced refresh whose fetch failed, with a cache document in place whose
\* cooldown is over.
C39_Witness ==
    \E r \in Reqs :
        /\ FetchError(r) /\ reqs[r].op = "refresh"
        /\ cacheFile.written /\ cacheFile.lastRefresh # NoStamp
        /\ ~InCooldown(LoadGroupCache(cacheFile), cacheClock)

\* The refreshUserGroups calls that are past the cooldown check and have not
\* saved yet: their forced scan is running.
ForcedScans == {r \in Reqs : reqs[r].op = "refresh" /\ reqs[r].pc \in {"fetch", "save"}}

\* C40: the cooldown holds for overlapping calls as well: while the forced
\* scan of one refreshUserGroups call is running, no second
\* refreshUserGroups call runs a forced scan.
C40_OneForcedScan == Cardinality(ForcedScans) <= 1

====
